---- MODULE Spec2Model ----
(***************************************************************************)
(* Model of progress-observer (src/src/lib.rs): the Observer struct, its   *)
(* constructor new_with, tick_n, tick and the Iterator implementation.     *)
(*                                                                         *)
(* Time is counted in whole clock units.  An Instant is the number of      *)
(* units since the first reading of the clock (the one that new_with       *)
(* stores in last_observation), a Duration is a number of units.           *)
(* Every Instant::now() is a read of a monotonic clock: the value read is  *)
(* the previous reading plus a nondeterministic advance >= 0.              *)
(*                                                                         *)
(* max_scale_factor (an f64) is a rational <<num, den>>.  The f64          *)
(* arithmetic of tick_n is computed exactly on rationals and the           *)
(* `as u64` casts follow Rust: truncation toward zero, NaN -> 0,           *)
(* +infinity -> u64::MAX.                                                  *)
(***************************************************************************)
EXTENDS Integers, Sequences, FiniteSets, TLC

(* ------------------------------ bounds --------------------------------- *)
\* Options::first_checkpoint is drawn from 0..MaxFirst
MaxFirst == 2
\* Options::max_checkpoint_size is None or Some(m), m in 0..MaxCeil
MaxCeil == 1
\* Options::delay is drawn from 0..MaxDelay
MaxDelay == 2
\* the argument of tick_n is drawn from 0..MaxN
MaxN == 2
\* the clock advances by 0..MaxStep units before each read
MaxStep == 2
\* calls that would read the clock beyond MaxClock are not explored
MaxClock == 3
\* calls that would count more than MaxTicks ticks are not explored
MaxTicks == 3

(* --------------------------- data encodings ---------------------------- *)
\* Option::None of Option<u64> and Option<Duration>; Some(v) is v >= 0
None == -1

\* the values of max_scale_factor explored: 0.5, 1.0, 1.5, 2.0
ScaleFactors == {<<1, 2>>, <<1, 1>>, <<3, 2>>, <<2, 1>>}

\* the values of frequency_target explored, in clock units (Duration::ZERO
\* is a Duration that new_with accepts)
Targets == {0, 1, 2}

\* the values of Options::run_for explored
RunFors == {None, 0, 1}

\* mutant of Min: the first argument, whatever the second
MinFirst(a, b) == a

Min(a, b) == IF a <= b THEN a ELSE b

Max(a, b) == IF a >= b THEN a ELSE b

(* ------------------------------- state --------------------------------- *)
VARIABLES
    phase,               \* "new": before new_with; "live"; "panicked"
    frequency_target,    \* Observer fields, lib.rs 107-121
    checkpoint_size,
    max_checkpoint_size,
    delay,
    max_scale_factor,
    run_for,
    next_checkpoint,
    last_observation,
    first_observation,
    ticks,
    finished,
    clock,               \* the latest reading of Instant::now()
    options,             \* the Options value given to new_with
    call,                \* the latest call: operation, argument, result, clock reads
    window,              \* ticks counted since the latest report (or start of timing)
    twin                 \* a second Observer, constructed with the same options
                         \* except run_for = None, given the same tick_n calls
                         \* and the same clock readings (its fields and `ret`,
                         \* the result of its latest tick_n call)

fields == <<frequency_target, checkpoint_size, max_checkpoint_size, delay,
            max_scale_factor, run_for, next_checkpoint, last_observation,
            first_observation, ticks, finished>>

vars == <<phase, frequency_target, checkpoint_size, max_checkpoint_size, delay,
          max_scale_factor, run_for, next_checkpoint, last_observation,
          first_observation, ticks, finished, clock, options, call, window,
          twin>>

(* --------------------------- pure functions ---------------------------- *)
\* mutant of InvalidScaleFactor: <= 1.0 in place of < 1.0
InvalidScaleFactorLe(msf) == msf[1] <= msf[2]

\* lib.rs 221: max_scale_factor < 1.0
InvalidScaleFactor(msf) == msf[1] < msf[2]

\* mutant of CheckpointDue: > in place of >=
CheckpointDueStrict(t, nc) == t > nc

\* mutant of CheckpointDue: a hard stop, no checkpoint fires once finished
CheckpointDueUnlessFinished(t, nc) == ~finished /\ t >= nc

\* lib.rs 363: self.ticks >= self.next_checkpoint
CheckpointDue(t, nc) == t >= nc

\* mutant of RunForExpired: >= run_for in place of > run_for
RunForExpiredGe(now, first, rf) == rf # None /\ now - first >= rf

\* lib.rs 365-367: run_for.is_some_and(|r| now.duration_since(first) > r)
RunForExpired(now, first, rf) == rf # None /\ now - first > rf

\* mutant of ScaleCap: the product is rounded up instead of truncated
ScaleCapRoundedUp(c, msf) == (c * msf[1] + msf[2] - 1) \div msf[2]

\* lib.rs 375: (checkpoint_size * self.max_scale_factor) as u64
ScaleCap(c, msf) == (c * msf[1]) \div msf[2]

\* lib.rs 371-373: whether checkpoint_size / checkpoint_ratio is +infinity,
\* which `as u64` saturates to u64::MAX (ratio = 0.0 and checkpoint_size > 0)
RawSaturates(c, e, T) == T > 0 /\ e = 0 /\ c > 0

\* lib.rs 371-373: (checkpoint_size / checkpoint_ratio) as u64 when it is not
\* +infinity.  ratio = e / T; T = 0 gives ratio +inf (quotient 0) or NaN
\* (cast 0); e = 0 with c = 0 gives 0.0 / 0.0 = NaN (cast 0).
RawSize(c, e, T) == IF T = 0 \/ e = 0 THEN 0 ELSE (c * T) \div e

\* mutant of NewCheckpointSize: the floor .max(1) is left out
NewCheckpointSizeNoFloor(c, e, T, msf, M) ==
    LET cap     == ScaleCap(c, msf)
        clamped == IF RawSaturates(c, e, T) THEN cap
                   ELSE IF RawSize(c, e, T) <= cap THEN RawSize(c, e, T) ELSE cap
    IN  IF M # None /\ M <= clamped THEN M ELSE clamped

\* lib.rs 373-378: the new checkpoint_size.  u64::MAX.max(1).min(cap) is cap.
NewCheckpointSize(c, e, T, msf, M) ==
    LET cap     == ScaleCap(c, msf)
        clamped == IF RawSaturates(c, e, T) THEN cap
                   ELSE Min(Max(RawSize(c, e, T), 1), cap)
    IN  IF M # None THEN Min(clamped, M) ELSE clamped

\* mutant of IterTicks: the iterator never looks at finished
IterTicksAlways(fin) == TRUE

\* mutant of IterTicks: the negation is dropped
IterTicksNotNegated(fin) == fin

\* lib.rs 426: (!self.finished).then(|| self.tick())
IterTicks(fin) == ~fin

\* mutant of ClockReads: the clock is polled in every call that gets past the
\* warm-up, whether or not a checkpoint is due
ClockReadsEveryCall(warm, due) == (IF warm THEN 2 ELSE 0) + 1

\* lib.rs 357-364: the number of Instant::now() calls of a tick_n call that
\* does not return at line 356: two when it completes the warm-up (lines 358,
\* 359) and one when a checkpoint is due (line 364)
ClockReads(warm, due) == (IF warm THEN 2 ELSE 0) + (IF due THEN 1 ELSE 0)

\* lib.rs 350-385: tick_n(n) on the Observer held in the record o, with r1,
\* r2, r3 the clock readings of lines 358, 359 and 364 (for those it makes)
TickFn(o, n, r1, r2, r3) ==
    LET adjustment == IF o.delay > 0 THEN Min(n, o.delay) ELSE 0
        delay1     == o.delay - adjustment
        n1         == n - adjustment
        warm       == o.delay > 0 /\ delay1 = 0
        last1      == IF warm THEN r1 ELSE o.last_observation
        first1     == IF warm THEN r2 ELSE o.first_observation
        ticks1     == o.ticks + n1
        size1      == NewCheckpointSize(o.checkpoint_size, r3 - last1,
                                        o.frequency_target, o.max_scale_factor,
                                        o.max_checkpoint_size)
    IN  IF delay1 > 0
        THEN [o EXCEPT !.delay = delay1, !.ret = "false"]
        ELSE IF ticks1 >= o.next_checkpoint
        THEN [o EXCEPT !.delay = delay1, !.ticks = ticks1,
                       !.finished = o.finished \/ RunForExpired(r3, first1, o.run_for),
                       !.checkpoint_size = size1,
                       !.next_checkpoint = o.next_checkpoint + size1,
                       !.last_observation = r3,
                       !.first_observation = first1,
                       !.ret = "true"]
        ELSE [o EXCEPT !.delay = delay1, !.ticks = ticks1,
                       !.last_observation = last1,
                       !.first_observation = first1,
                       !.ret = "false"]

\* lib.rs 224-238: the Observer that new_with builds, as a record
NewObserver(T, fc, M, D, msf, rf, r1, r2) ==
    [frequency_target |-> T, checkpoint_size |-> fc, max_checkpoint_size |-> M,
     delay |-> D, max_scale_factor |-> msf, run_for |-> rf,
     next_checkpoint |-> fc, last_observation |-> r1, first_observation |-> r2,
     ticks |-> 0, finished |-> FALSE, ret |-> "none"]

(* ------------------------------ actions -------------------------------- *)
Init ==
    /\ phase = "new"
    /\ frequency_target = 0
    /\ checkpoint_size = 0
    /\ max_checkpoint_size = None
    /\ delay = 0
    /\ max_scale_factor = <<1, 1>>
    /\ run_for = None
    /\ next_checkpoint = 0
    /\ last_observation = 0
    /\ first_observation = 0
    /\ ticks = 0
    /\ finished = FALSE
    /\ clock = 0
    /\ options = [first_checkpoint |-> 0, max_checkpoint_size |-> None, delay |-> 0,
                  max_scale_factor |-> <<1, 1>>, run_for |-> None]
    /\ call = [op |-> "none", n |-> 0, ret |-> "none", reads |-> 0]
    /\ window = 0
    /\ twin = NewObserver(0, 0, None, 0, <<1, 1>>, None, 0, 0)

\* lib.rs 211-239
new_with ==
    /\ phase = "new"
    /\ \E T \in Targets, fc \in 0..MaxFirst, M \in {None} \cup 0..MaxCeil,
          D \in 0..MaxDelay, msf \in ScaleFactors, rf \in RunFors :
        /\ options' = [first_checkpoint |-> fc, max_checkpoint_size |-> M, delay |-> D,
                       max_scale_factor |-> msf, run_for |-> rf]
        /\ IF InvalidScaleFactor(msf)
           THEN /\ phase' = "panicked"
                /\ call' = [op |-> "new_with", n |-> 0, ret |-> "panic", reads |-> 0]
                /\ UNCHANGED <<fields, clock, window, twin>>
           ELSE \E d1 \in {0}, d2 \in 0..MaxStep :
                /\ clock + d1 + d2 <= MaxClock
                /\ phase' = "live"
                /\ frequency_target' = T
                /\ checkpoint_size' = fc
                /\ max_checkpoint_size' = M
                /\ delay' = D
                /\ max_scale_factor' = msf
                /\ run_for' = rf
                /\ next_checkpoint' = fc
                /\ last_observation' = clock + d1
                /\ first_observation' = clock + d1 + d2
                /\ ticks' = 0
                /\ finished' = FALSE
                /\ clock' = clock + d1 + d2
                /\ call' = [op |-> "new_with", n |-> 0, ret |-> "ok", reads |-> 2]
                /\ window' = 0
                /\ twin' = NewObserver(T, fc, M, D, msf, None,
                                       clock + d1, clock + d1 + d2)

\* lib.rs 350-385, called as `op` with argument n
TickBody(n, op) ==
    LET adjustment == IF delay > 0 THEN Min(n, delay) ELSE 0
        delay1     == delay - adjustment
        n1         == n - adjustment
        warm       == delay > 0 /\ delay1 = 0
        ticks1     == ticks + n1
    IN  IF delay1 > 0
        THEN \* lib.rs 355-356
             /\ delay' = delay1
             /\ call' = [op |-> op, n |-> n, ret |-> "false", reads |-> 0]
             /\ twin' = TickFn(twin, n, clock, clock, clock)
             /\ UNCHANGED <<phase, frequency_target, checkpoint_size,
                            max_checkpoint_size, max_scale_factor, run_for,
                            next_checkpoint, last_observation, first_observation,
                            ticks, finished, clock, options, window>>
        ELSE \E d1, d2 \in (IF warm THEN 0..MaxStep ELSE {0}),
                d3 \in (IF CheckpointDue(ticks1, next_checkpoint)
                        THEN 0..MaxStep ELSE {0}) :
             LET t1     == clock + d1
                 t2     == t1 + d2
                 last1  == IF warm THEN t1 ELSE last_observation
                 first1 == IF warm THEN t2 ELSE first_observation
                 clock1 == IF warm THEN t2 ELSE clock
                 due    == CheckpointDue(ticks1, next_checkpoint)
                 observation_time == clock1 + d3
                 size1  == NewCheckpointSize(checkpoint_size,
                                             observation_time - last1,
                                             frequency_target, max_scale_factor,
                                             max_checkpoint_size)
             IN  /\ observation_time <= MaxClock
                 /\ ticks1 <= MaxTicks
                 /\ delay' = delay1
                 /\ ticks' = ticks1
                 /\ twin' = TickFn(twin, n, t1, t2, observation_time)
                 /\ IF due
                    THEN \* lib.rs 364-381
                         /\ finished' = (finished \/ RunForExpired(observation_time,
                                                                   first1, run_for))
                         /\ checkpoint_size' = size1
                         /\ next_checkpoint' = next_checkpoint + size1
                         /\ last_observation' = observation_time
                         /\ first_observation' = first1
                         /\ clock' = observation_time
                         /\ window' = 0
                         /\ call' = [op |-> op, n |-> n, ret |-> "true",
                                     reads |-> ClockReads(warm, due)]
                    ELSE \* lib.rs 382-384
                         /\ last_observation' = last1
                         /\ first_observation' = first1
                         /\ clock' = clock1
                         /\ window' = IF warm THEN n1 ELSE window + n1
                         /\ call' = [op |-> op, n |-> n, ret |-> "false",
                                     reads |-> ClockReads(warm, due)]
                         /\ UNCHANGED <<checkpoint_size, next_checkpoint, finished>>
                 /\ UNCHANGED <<phase, frequency_target, max_checkpoint_size,
                                max_scale_factor, run_for, options>>

\* lib.rs 350: Observer::tick_n called directly
tick_n ==
    /\ phase = "live"
    /\ \E n \in 0..MaxN : TickBody(n, "tick_n")

\* lib.rs 417-419: Observer::tick, which is the call tick_n(1)
tick ==
    /\ phase = "live"
    /\ TickBody(1, "tick_n")

\* lib.rs 425-427: Iterator::next, a pull that ticks
next_some ==
    /\ phase = "live"
    /\ IterTicks(finished)
    /\ TickBody(1, "next")

\* lib.rs 425-427: Iterator::next, a pull that returns None
next_none ==
    /\ phase = "live"
    /\ ~IterTicks(finished)
    /\ call' = [op |-> "next", n |-> 0, ret |-> "None", reads |-> 0]
    /\ twin' = [twin EXCEPT !.ret = "none"]
    /\ UNCHANGED <<phase, fields, clock, options, window>>

Next == new_with \/ tick_n \/ tick \/ next_some \/ next_none

Spec == Init /\ [][Next]_vars

\* the Observer driven only by tick() and by the iterator
NextTick == new_with \/ tick \/ next_some \/ next_none

SpecTick == Init /\ [][NextTick]_vars

\* the Observer driven only by the iterator, pulled again and again: a pull
\* that can be made is eventually made
NextIter == new_with \/ next_some \/ next_none

SpecIter ==
    Init /\ [][NextIter]_vars /\ WF_vars(next_some) /\ WF_vars(next_none)

(* ------------------------------- claims -------------------------------- *)
\* the step is a call of tick_n (directly, through tick or through next) on a
\* constructed Observer
Ticked == phase = "live" /\ call'.op \in {"tick_n", "next"} /\ call'.ret # "None"

\* the step is a call that returned true (a report, an adjustment)
Reported == Ticked /\ call'.ret = "true"

\* C1: checkpoint_size >= 1 in every reachable state of every Observer that
\* new_with constructs, whatever the options and the clock readings.
C1_CheckpointSizeAtLeastOne == phase = "live" => checkpoint_size >= 1

\* C2: with max_checkpoint_size = Some(M), the number of ticks counted between
\* two consecutive reports, and between the start of timing and the first
\* report, never exceeds M.  Stated for M >= 1 and checked with the Observer
\* driven by tick() only, so that every call counts at most one tick.
C2_CeilingRespected ==
    [][(Reported /\ max_checkpoint_size # None /\ max_checkpoint_size >= 1)
         => window + (ticks' - ticks) <= max_checkpoint_size]_vars

\* C3: at every adjustment the new checkpoint_size is at most the previous
\* checkpoint_size times max_scale_factor, whatever the elapsed time.
C3_ScaleFactorBound ==
    [][Reported => checkpoint_size' * max_scale_factor[2]
                     <= checkpoint_size * max_scale_factor[1]]_vars

\* C3 witness: an adjustment with zero elapsed time (every clock reading so
\* far was 0) that grew checkpoint_size from 1 to 2 under max_scale_factor 2.0
C3_Witness ==
    /\ phase = "live" /\ call.ret = "true" /\ clock = 0
    /\ options.first_checkpoint = 1 /\ max_scale_factor = <<2, 1>>
    /\ checkpoint_size = 2 /\ next_checkpoint = 3

\* C4: next_checkpoint never decreases, changes only in a call that returns
\* true, and in such a call strictly increases by exactly the checkpoint_size
\* computed in that call.
C4_NextCheckpointMonotone ==
    [][Ticked =>
         /\ next_checkpoint' >= next_checkpoint
         /\ (next_checkpoint' # next_checkpoint => call'.ret = "true")
         /\ (call'.ret = "true" =>
                /\ next_checkpoint' > next_checkpoint
                /\ next_checkpoint' = next_checkpoint + checkpoint_size')]_vars

\* the new checkpoint_size as C5 states it, for old size c, elapsed time e and
\* target T (ratio = e / T): max(1, min(floor(c / ratio), c * msf)), limited
\* to max_checkpoint_size.  The product c * msf is rounded down, as a
\* checkpoint_size is an integer; with ratio = 0 the quotient is unbounded
\* and the minimum is the product.
C5_StatedSize(c, e, T, msf, M) ==
    LET product == (c * msf[1]) \div msf[2]
        least   == IF e = 0 THEN product ELSE Min((c * T) \div e, product)
        floored == Max(1, least)
    IN  IF M # None THEN Min(floored, M) ELSE floored

\* C5: at every checkpoint the new checkpoint_size is C5_StatedSize of the old
\* one and next_checkpoint grows by it.  Stated for the calls that start with
\* no delay left, where the elapsed time is the new last_observation minus the
\* old one.  (The two scenarios of the claim are instances: T = 1, e = 2 and
\* T = 2, e = 1 with the default options.)
C5_AdjustmentFormula ==
    [][(Reported /\ delay = 0) =>
         /\ checkpoint_size' = C5_StatedSize(checkpoint_size,
                                             last_observation' - last_observation,
                                             frequency_target, max_scale_factor,
                                             max_checkpoint_size)
         /\ next_checkpoint' = next_checkpoint + checkpoint_size']_vars

\* C6: with delay = D > 0 and the Observer driven by tick(), each of the first
\* D calls (the calls that start with delay > 0) returns false and counts no
\* tick; last_observation and first_observation are re-set to the clock in
\* the D-th call (the one that starts with delay = 1) and in no earlier call;
\* the next tick is counted.
C6_DelayAbsorption ==
    [][Ticked =>
         IF delay > 0
         THEN /\ call'.ret = "false"
              /\ delay' = delay - 1
              /\ ticks' = ticks /\ ticks = 0
              /\ IF delay = 1
                 THEN /\ call'.reads = 2
                      /\ last_observation' >= clock
                      /\ first_observation' >= last_observation'
                      /\ first_observation' = clock'
                 ELSE /\ call'.reads = 0
                      /\ UNCHANGED <<last_observation, first_observation, clock>>
         ELSE ticks' = ticks + 1]_vars

\* C7: with run_for = R, finished is set only inside a call that fires a
\* checkpoint whose clock reading is more than R after first_observation, and
\* that call returns true; once finished, Iterator::next returns None and
\* changes nothing, while tick_n still counts its ticks, still reports when
\* ticks >= next_checkpoint, and leaves finished true.
C7_RunForCutoff ==
    [][phase = "live" =>
         /\ (~finished /\ finished') =>
                /\ Reported
                /\ run_for # None
                /\ last_observation' = clock'
                /\ last_observation' - first_observation' > run_for
         /\ (finished /\ call'.op = "next") =>
                /\ call'.ret = "None"
                /\ UNCHANGED <<fields, clock>>
         /\ (finished /\ call'.op = "tick_n") =>
                /\ finished'
                /\ delay = 0
                /\ ticks' = ticks + call'.n
                /\ (call'.ret = "true") = (ticks' >= next_checkpoint)
                /\ (call'.ret = "true" =>
                       next_checkpoint' = next_checkpoint + checkpoint_size')
       ]_vars

\* C7 witness: a pull of the iterator fired the checkpoint that crossed the
\* cutoff (its clock reading is more than run_for = 1 after first_observation):
\* finished is set and the pull still yielded Some(true)
C7_Witness ==
    /\ phase = "live" /\ finished /\ run_for = 1
    /\ call.op = "next" /\ call.ret = "true"
    /\ last_observation - first_observation > 1

\* C8: finished is never reset to false; with run_for = None finished is
\* false in every reachable state and Iterator::next never returns None.
C8_FinishedMonotone ==
    [][/\ finished => finished'
       /\ (phase' = "live" /\ run_for' = None) =>
              /\ ~finished'
              /\ (call'.op = "next" => call'.ret \in {"true", "false"})
      ]_vars

\* C8 witness: without run_for, the iterator still yields after the clock has
\* run to the end of the explored time and ticks have been counted
C8_Witness ==
    /\ phase = "live" /\ run_for = None /\ ~finished
    /\ call.op = "next" /\ call.ret = "true"
    /\ clock - first_observation >= 2 /\ ticks >= 2

\* C9: new_with panics for every max_scale_factor < 1.0 and succeeds for every
\* max_scale_factor >= 1.0; on success checkpoint_size = next_checkpoint =
\* first_checkpoint, ticks = 0, delay = the configured delay, finished = false.
C9_NewWith ==
    call.op = "new_with" =>
        LET msf == options.max_scale_factor
        IN  /\ msf[1] < msf[2] => phase = "panicked" /\ call.ret = "panic"
            /\ msf[1] >= msf[2] =>
                   /\ phase = "live" /\ call.ret = "ok"
                   /\ checkpoint_size = options.first_checkpoint
                   /\ next_checkpoint = options.first_checkpoint
                   /\ ticks = 0
                   /\ delay = options.delay
                   /\ finished = FALSE

\* C9 witness: new_with has succeeded with max_scale_factor exactly 1.0
C9_Witness ==
    /\ call.op = "new_with" /\ phase = "live"
    /\ options.max_scale_factor = <<1, 1>>
    /\ options.first_checkpoint = 2 /\ options.delay = 1

\* C10: tick_n(0) returns false and leaves every field of the Observer
\* unchanged.  Stated for the Observers constructed with first_checkpoint >= 1
\* and max_checkpoint_size other than Some(0).
C10_TickZeroNoOp ==
    [][(/\ phase = "live"
        /\ options.first_checkpoint >= 1 /\ options.max_checkpoint_size # 0
        /\ call'.op = "tick_n" /\ call'.n = 0)
         => call'.ret = "false" /\ UNCHANGED fields]_vars

\* the step is a call whose checkpoint measured an elapsed time of exactly
\* zero: it started with no delay left and read the clock value already in
\* last_observation, or it completed the warm-up and the clock stood still
ZeroElapsed ==
    \/ delay = 0 /\ last_observation' = last_observation
    \/ delay > 0 /\ clock' = clock

\* C11: when a checkpoint fires with zero elapsed time, the new
\* checkpoint_size is the clamp ceiling: the previous checkpoint_size times
\* max_scale_factor, rounded down, limited to max_checkpoint_size.
C11_ZeroElapsedGrows ==
    [][(Reported /\ ZeroElapsed) =>
         LET ceiling == (checkpoint_size * max_scale_factor[1])
                            \div max_scale_factor[2]
         IN  checkpoint_size' = IF max_checkpoint_size # None
                                THEN Min(ceiling, max_checkpoint_size)
                                ELSE ceiling]_vars

\* C12: run_for has no effect on direct ticking.  The Observer and its twin
\* (same options except run_for = None; any two values of run_for are compared
\* through it) get the same tick_n calls and clock readings: every call
\* returns the same boolean on both and they agree on checkpoint_size,
\* next_checkpoint, ticks, delay and last_observation after every call.
C12_RunForNoEffect ==
    phase = "live" =>
        /\ twin.checkpoint_size = checkpoint_size
        /\ twin.next_checkpoint = next_checkpoint
        /\ twin.ticks = ticks
        /\ twin.delay = delay
        /\ twin.last_observation = last_observation
        /\ (call.op \in {"tick_n", "next"} /\ call.ret # "None")
               => twin.ret = call.ret

\* C12 witness: the Observer with run_for = Some(1) is finished, the twin is
\* not, and a direct tick_n call has just fired a checkpoint on both
C12_Witness ==
    /\ phase = "live" /\ run_for = 1 /\ finished /\ ~twin.finished
    /\ call.op = "tick_n" /\ call.n = 2 /\ call.ret = "true" /\ twin.ret = "true"
    /\ ticks = 3 /\ twin.ticks = 3

EarlyCheckpoint ==
    call.ret = "true" /\ last_observation - first_observation <= run_for

\* C14: with run_for = Some(R) and first_checkpoint >= 1, if the iterator is
\* pulled repeatedly and the clock eventually passes first_observation + R,
\* then Iterator::next eventually returns None, and every pull after a None
\* returns None.  Stated per checkpoint: from every state whose next
\* checkpoint lies within the explored ticks, the pulls lead to a None or to
\* a checkpoint that read the clock before it had passed the cutoff; once the
\* clock has passed it no such checkpoint exists.
C14_IteratorEnds ==
    /\ [](( /\ phase = "live" /\ run_for # None
            /\ options.first_checkpoint >= 1
            /\ next_checkpoint <= MaxTicks)
            => <>(call.ret = "None" \/ EarlyCheckpoint))
    /\ [][(call.ret = "None" /\ call'.op = "next") => call'.ret = "None"]_vars

\* C14 witness: the iterator of an Observer with run_for = Some(1) and
\* first_checkpoint = 2 has returned None after its ticks were counted
C14_Witness ==
    /\ phase = "live" /\ run_for = 1 /\ options.first_checkpoint = 2
    /\ call.op = "next" /\ call.ret = "None" /\ ticks >= 2 /\ ticks < MaxTicks

\* C15: tick_n(n) returns true iff the warm-up is complete after the delay
\* step and ticks, after the non-absorbed part of n is added, is >=
\* next_checkpoint; when it returns false, checkpoint_size, next_checkpoint
\* and finished are unchanged, and last_observation and first_observation
\* are unchanged unless the call completed the warm-up.
C15_ReturnAndFrame ==
    [][Ticked =>
         LET absorbed  == IF call'.n <= delay THEN call'.n ELSE delay
             remainder == call'.n - absorbed
         IN  /\ (call'.ret = "true") =
                    (delay - absorbed = 0 /\ ticks + remainder >= next_checkpoint)
             /\ call'.ret = "false" =>
                    /\ UNCHANGED <<checkpoint_size, next_checkpoint, finished>>
                    /\ ~(delay > 0 /\ delay' = 0) =>
                           UNCHANGED <<last_observation, first_observation>>
    ]_vars

\* C15 witness: tick_n(2) with one tick of delay left completed the warm-up,
\* counted the remaining tick and returned false (first_checkpoint = 2)
C15_Witness ==
    /\ phase = "live" /\ options.delay = 1 /\ options.first_checkpoint = 2
    /\ call.op = "tick_n" /\ call.n = 2 /\ call.ret = "false"
    /\ delay = 0 /\ ticks = 1

\* C16: with initial delay D and increments summing to N, delay =
\* max(0, D - N) and ticks = max(0, N - D) (each call moves n ticks from the
\* argument into the absorbed delay and, for the rest, into ticks; no tick is
\* counted while delay > 0); delay never increases; the timestamps are
\* re-initialized (the two clock reads of the warm-up) exactly in the call in
\* which delay goes from positive to 0.
C16_DelayAccounting ==
    [][Ticked =>
         /\ 0 <= delay' /\ delay' <= delay /\ delay <= options.delay
         /\ (options.delay - delay') + ticks'
                = (options.delay - delay) + ticks + call'.n
         /\ (delay' > 0 => ticks' = 0)
         /\ (call'.reads >= 2) = (delay > 0 /\ delay' = 0)
         /\ (first_observation' # first_observation => (delay > 0 /\ delay' = 0))
         /\ ((delay > 0 /\ delay' = 0) =>
                 /\ first_observation' >= clock
                 /\ first_observation' <= clock')
    ]_vars

\* C16 witness: D = 2, tick_n(1) then tick_n(2): the second call absorbed the
\* last delay tick, re-initialized the timestamps and counted the remainder
C16_Witness ==
    /\ phase = "live" /\ options.delay = 2 /\ delay = 0 /\ ticks = 1
    /\ call.op = "tick_n" /\ call.n = 2 /\ call.reads >= 2

\* C17: right after construction, and right after the call that completes the
\* warm-up (when it fires no checkpoint), last_observation and
\* first_observation hold the same clock value.
C17_SameInstant ==
    (/\ phase = "live"
     /\ \/ call.op = "new_with"
        \/ call.op \in {"tick_n", "next"} /\ call.reads = 2)
        => last_observation = first_observation

\* C18: driven only by tick() or the iterator, with first_checkpoint >= 1 and
\* max_checkpoint_size other than Some(0): ticks < next_checkpoint after every
\* call, a call reports exactly when ticks reaches next_checkpoint, and the
\* ticks counted between two consecutive reports (and up to the first one)
\* are exactly the checkpoint_size in force, the one computed at the earlier
\* report.
C18_TickInvariant ==
    [][(/\ Ticked
        /\ options.first_checkpoint >= 1 /\ options.max_checkpoint_size # 0) =>
         /\ ticks < next_checkpoint
         /\ ticks' < next_checkpoint'
         /\ (call'.ret = "true") = (ticks' = next_checkpoint)
         /\ call'.ret = "true" => window + (ticks' - ticks) = checkpoint_size
    ]_vars

\* C18 witness: a report at tick 3 by tick() alone, with no delay and
\* first_checkpoint = 1, two ticks after the report that set checkpoint_size
\* to 2 (max_scale_factor 2.0, first report at tick 1)
C18_Witness ==
    /\ phase = "live" /\ options.first_checkpoint = 1 /\ options.delay = 0
    /\ max_scale_factor = <<2, 1>> /\ call.ret = "true" /\ ticks = 3
    /\ next_checkpoint = 3 + checkpoint_size /\ clock = 0

====
